---- MODULE Spec2Model ----
(***************************************************************************)
(* Model of insights/client/client.py: the registration handlers          *)
(* (_legacy_handle_registration, handle_registration,                      *)
(* _legacy_handle_unregistration, handle_unregistration) and the upload    *)
(* retry loops (_legacy_upload, upload).                                   *)
(*                                                                         *)
(* A handler that has no loop is one atomic action.  The upload loops are  *)
(* one action for the function entry, one per loop iteration and one for   *)
(* the loop running out.  Every invocation records the remote calls, the   *)
(* sleeps and the file operations it performs, in order, in `trace`.       *)
(***************************************************************************)
EXTENDS Integers, Sequences, FiniteSets, TLC

\* ------------------------------------------------------------------ bounds
MaxRetries == 3        \* config.retries ranges over 0..MaxRetries
MaxIds == 2            \* machine identities generated in one behaviour

\* -------------------------------------------------------------- input sets
AuthMethods == {"BASIC", "CERT"}
\* registration_check(pconn): a bool, or the query fails
CheckOutcomes == {"True", "False", "RuntimeError"}
\* pconn.register(): returns, or raises
RegisterOutcomes == {"ok", "raise"}
\* pconn.unregister(): a bool, or raises
UnregisterOutcomes == {"True", "False", "raise"}
\* response bodies: one that json.loads accepts, one it rejects
Bodies == {"{}", "<html>"}
\* pconn.upload_archive(): a response (truthy iff its status is a success
\* status) carrying a body, or one of the typed failures
Responses == [kind : {"response"}, ok : BOOLEAN, text : Bodies]
Exceptions ==
    [kind : {"TimeoutException", "PayloadTooLargeException",
             "UnregisteredException", "InvalidContentTypeException"},
     ok : {FALSE}, text : {""}]
UploadOutcomes == Responses \cup Exceptions
RetriesSet == 0..MaxRetries

VARIABLES
    fs,         \* the files on disk
    fs0,        \* the files as the running (or last) invocation found them
    id_counter, \* machine identities generated so far
    pc,         \* "idle", "legacy_upload", "upload": where the client is
    op,         \* the handler invoked last (or running)
    config,     \* the configuration that invocation was given
    env,        \* the remote outcomes that invocation met
    tries,      \* loop variable of the upload loops
    api_response, \* local of _legacy_upload
    outcomes,   \* the upload_archive outcomes of that invocation, in order
    trace,      \* the calls and file operations of that invocation, in order
    result      \* how the invocation ended

vars == <<fs, fs0, id_counter, pc, op, config, env, tries, api_response,
          outcomes, trace, result>>

\* ------------------------------------------------------------ small helpers
Count(seq, e) == Cardinality({i \in DOMAIN seq : seq[i] = e})

Has(seq, e) == \E i \in DOMAIN seq : seq[i] = e

DefaultConfig ==
    [legacy_upload |-> FALSE, reregister |-> FALSE, register |-> FALSE,
     authmethod |-> "CERT", username |-> FALSE, password |-> FALSE,
     force |-> FALSE, retries |-> 0]

NoResult == [how |-> "none", value |-> "none"]

NoEnv == [check |-> "-", register |-> "-", unregister |-> "-"]

\* A handler works on s = [fs, id_counter, trace] and ends in
\* [fs, id_counter, trace, result].
Do(s, event) == [s EXCEPT !.trace = Append(@, event)]

Return(s, value) ==
    [fs |-> s.fs, id_counter |-> s.id_counter, trace |-> s.trace,
     result |-> [how |-> "return", value |-> value]]

Raise(s, exception) ==
    [fs |-> s.fs, id_counter |-> s.id_counter, trace |-> s.trace,
     result |-> [how |-> "raise", value |-> exception]]

\* ------------------------------------------------------ utilities (files)
\* variant: the unregistered marker is left in place
write_registered_file_KeepsOther(s) ==
    Do([s EXCEPT !.fs.registered = TRUE], "write_registered_file")

write_registered_file(s) ==
    Do([s EXCEPT !.fs.registered = TRUE, !.fs.unregistered = FALSE],
       "write_registered_file")

write_unregistered_file(s) ==
    Do([s EXCEPT !.fs.unregistered = TRUE, !.fs.registered = FALSE],
       "write_unregistered_file")

delete_registered_file(s) ==
    Do([s EXCEPT !.fs.registered = FALSE], "delete_registered_file")

delete_unregistered_file(s) ==
    Do([s EXCEPT !.fs.unregistered = FALSE], "delete_unregistered_file")

delete_machine_id_file(s) ==
    Do([s EXCEPT !.fs.machine_id = 0], "delete_machine_id_file")

delete_cache_files(s) ==
    Do([s EXCEPT !.fs.cache = FALSE], "delete_cache_files")

remove_scheduling(s) ==
    Do([s EXCEPT !.fs.scheduled = FALSE], "remove_scheduling")

write_lastupload_file(s) ==
    Do([s EXCEPT !.fs.lastupload = TRUE], "write_lastupload_file")

write_last_upload_results_file(s, text) ==
    Do([s EXCEPT !.fs.last_upload_results = text],
       "write_last_upload_results_file")

\* generate_machine_id(new): a new identity when asked for one or when none
\* is stored, the stored one otherwise
generate_machine_id(s, new) ==
    IF new \/ s.fs.machine_id = 0
    THEN Do([s EXCEPT !.fs.machine_id = s.id_counter + 1,
                      !.id_counter = s.id_counter + 1],
            "generate_machine_id")
    ELSE Do(s, "read_machine_id")

\* ------------------------------------------------------------ registration
\* registration_check(pconn): a query of the remote service; it touches no
\* file.  What it answers is the handler's `check` input.
registration_check(s) == Do(s, "registration_check")

\* variant: a requested registration is performed even when the host is
\* already registered
_legacy_handle_registration_RegistersAnyway(s, cfg, check, reg) ==
    LET s1 == IF cfg.reregister
              THEN delete_machine_id_file(
                       delete_unregistered_file(delete_registered_file(s)))
              ELSE s
        s2 == generate_machine_id(s1, cfg.reregister)
        s3 == registration_check(s2)
    IN  IF check = "RuntimeError" THEN Raise(s3, "RuntimeError")
        ELSE IF check = "True" /\ ~cfg.register THEN Return(s3, "True")
        ELSE IF cfg.register
        THEN IF cfg.authmethod = "BASIC"
                 /\ ~(cfg.username /\ cfg.password)
             THEN Return(s3, "False")
             ELSE LET s4 == Do(s3, "register")
                  IN  IF reg = "raise" THEN Raise(s4, "RegisterError")
                      ELSE Return(write_registered_file(s4), "True")
        ELSE Return(s3, "False")

\* variant: the credentials test is `not (username or password)`
_legacy_handle_registration_EitherCredential(s, cfg, check, reg) ==
    LET s1 == IF cfg.reregister
              THEN delete_machine_id_file(
                       delete_unregistered_file(delete_registered_file(s)))
              ELSE s
        s2 == generate_machine_id(s1, cfg.reregister)
        s3 == registration_check(s2)
    IN  IF check = "RuntimeError" THEN Raise(s3, "RuntimeError")
        ELSE IF check = "True" THEN Return(s3, "True")
        ELSE IF cfg.register
        THEN IF cfg.authmethod = "BASIC"
                 /\ ~(cfg.username \/ cfg.password)
             THEN Return(s3, "False")
             ELSE LET s4 == Do(s3, "register")
                  IN  IF reg = "raise" THEN Raise(s4, "RegisterError")
                      ELSE Return(write_registered_file(s4), "True")
        ELSE Return(s3, "False")

\* variant: pconn.register() is called before the credentials are looked at
_legacy_handle_registration_RegistersFirst(s, cfg, check, reg) ==
    LET s1 == IF cfg.reregister
              THEN delete_machine_id_file(
                       delete_unregistered_file(delete_registered_file(s)))
              ELSE s
        s2 == generate_machine_id(s1, cfg.reregister)
        s3 == registration_check(s2)
    IN  IF check = "RuntimeError" THEN Raise(s3, "RuntimeError")
        ELSE IF check = "True" THEN Return(s3, "True")
        ELSE IF cfg.register
        THEN LET s4 == Do(s3, "register")
             IN  IF reg = "raise" THEN Raise(s4, "RegisterError")
                 ELSE IF cfg.authmethod = "BASIC"
                         /\ ~(cfg.username /\ cfg.password)
                 THEN Return(s4, "False")
                 ELSE Return(write_registered_file(s4), "True")
        ELSE Return(s3, "False")

\* variant: the machine-id file is not deleted on a forced re-registration
_legacy_handle_registration_KeepsMachineId(s, cfg, check, reg) ==
    LET s1 == IF cfg.reregister
              THEN delete_unregistered_file(delete_registered_file(s))
              ELSE s
        s2 == generate_machine_id(s1, cfg.reregister)
        s3 == registration_check(s2)
    IN  IF check = "RuntimeError" THEN Raise(s3, "RuntimeError")
        ELSE IF check = "True" THEN Return(s3, "True")
        ELSE IF cfg.register
        THEN IF cfg.authmethod = "BASIC"
                 /\ ~(cfg.username /\ cfg.password)
             THEN Return(s3, "False")
             ELSE LET s4 == Do(s3, "register")
                  IN  IF reg = "raise" THEN Raise(s4, "RegisterError")
                      ELSE Return(write_registered_file(s4), "True")
        ELSE Return(s3, "False")

\* variant: the registered marker is written before pconn.register() is called
_legacy_handle_registration_WritesFirst(s, cfg, check, reg) ==
    LET s1 == IF cfg.reregister
              THEN delete_machine_id_file(
                       delete_unregistered_file(delete_registered_file(s)))
              ELSE s
        s2 == generate_machine_id(s1, cfg.reregister)
        s3 == registration_check(s2)
    IN  IF check = "RuntimeError" THEN Raise(s3, "RuntimeError")
        ELSE IF check = "True" THEN Return(s3, "True")
        ELSE IF cfg.register
        THEN IF cfg.authmethod = "BASIC"
                 /\ ~(cfg.username /\ cfg.password)
             THEN Return(s3, "False")
             ELSE LET s4 == Do(write_registered_file(s3), "register")
                  IN  IF reg = "raise" THEN Raise(s4, "RegisterError")
                      ELSE Return(s4, "True")
        ELSE Return(s3, "False")

_legacy_handle_registration(s, cfg, check, reg) ==
    LET s1 == IF cfg.reregister
              THEN delete_machine_id_file(
                       delete_unregistered_file(delete_registered_file(s)))
              ELSE s
        s2 == generate_machine_id(s1, cfg.reregister)
        s3 == registration_check(s2)
    IN  IF check = "RuntimeError" THEN Raise(s3, "RuntimeError")
        ELSE IF check = "True" THEN Return(s3, "True")
        ELSE IF cfg.register
        THEN IF cfg.authmethod = "BASIC"
                 /\ ~(cfg.username /\ cfg.password)
             THEN Return(s3, "False")
             ELSE LET s4 == Do(s3, "register")
                  IN  IF reg = "raise" THEN Raise(s4, "RegisterError")
                      ELSE Return(write_registered_file(s4), "True")
        ELSE Return(s3, "False")

\* variant: the legacy handler runs whatever config.legacy_upload is
handle_registration_AlwaysLegacy(s, cfg, check, reg) ==
    _legacy_handle_registration(s, cfg, check, reg)

handle_registration(s, cfg, check, reg) ==
    IF cfg.legacy_upload
    THEN _legacy_handle_registration(s, cfg, check, reg)
    ELSE Return(s, "None")

\* ---------------------------------------------------------- unregistration
\* variant: the cached files are left behind
__cleanup_local_files_KeepsCache(s) ==
    remove_scheduling(write_unregistered_file(s))

__cleanup_local_files(s) ==
    delete_cache_files(remove_scheduling(write_unregistered_file(s)))

\* variant: a failed query triggers the local cleanup before force is looked at
_legacy_handle_unregistration_CleansFirst(s, cfg, check, unreg_ret) ==
    LET s1 == registration_check(s)
    IN  IF check = "RuntimeError"
        THEN IF cfg.force
             THEN Return(__cleanup_local_files(s1), "True")
             ELSE Raise(__cleanup_local_files(s1), "RuntimeError")
        ELSE LET s2 == IF check = "True" THEN Do(s1, "unregister") ELSE s1
                 unreg == IF check = "True" THEN unreg_ret ELSE "True"
             IN  IF unreg = "raise" THEN Raise(s2, "UnregisterError")
                 ELSE IF unreg = "True"
                 THEN Return(__cleanup_local_files(s2), unreg)
                 ELSE Return(s2, unreg)

\* variant: the local cleanup does not depend on what unregister() returned
_legacy_handle_unregistration_CleansAlways(s, cfg, check, unreg_ret) ==
    LET s1 == registration_check(s)
    IN  IF check = "RuntimeError"
        THEN IF cfg.force
             THEN Return(__cleanup_local_files(s1), "True")
             ELSE Raise(s1, "RuntimeError")
        ELSE LET s2 == IF check = "True" THEN Do(s1, "unregister") ELSE s1
                 unreg == IF check = "True" THEN unreg_ret ELSE "True"
             IN  IF unreg = "raise" THEN Raise(s2, "UnregisterError")
                 ELSE Return(__cleanup_local_files(s2), unreg)

_legacy_handle_unregistration(s, cfg, check, unreg_ret) ==
    LET s1 == registration_check(s)
    IN  IF check = "RuntimeError"
        THEN IF cfg.force
             THEN Return(__cleanup_local_files(s1), "True")
             ELSE Raise(s1, "RuntimeError")
        ELSE LET s2 == IF check = "True" THEN Do(s1, "unregister") ELSE s1
                 unreg == IF check = "True" THEN unreg_ret ELSE "True"
             IN  IF unreg = "raise" THEN Raise(s2, "UnregisterError")
                 ELSE IF unreg = "True"
                 THEN Return(__cleanup_local_files(s2), unreg)
                 ELSE Return(s2, unreg)

\* variant: the flag returned is `unreg or config.force`
handle_unregistration_ForceIsSuccess(s, cfg, check, unreg_ret) ==
    IF cfg.legacy_upload
    THEN _legacy_handle_unregistration(s, cfg, check, unreg_ret)
    ELSE LET s1 == Do(s, "unregister")
         IN  IF unreg_ret = "raise" THEN Raise(s1, "UnregisterError")
             ELSE IF unreg_ret = "True" \/ cfg.force
             THEN Return(delete_cache_files(write_unregistered_file(s1)),
                         "True")
             ELSE Return(s1, unreg_ret)

\* variant: config.force is not looked at
handle_unregistration_IgnoresForce(s, cfg, check, unreg_ret) ==
    IF cfg.legacy_upload
    THEN _legacy_handle_unregistration(s, cfg, check, unreg_ret)
    ELSE LET s1 == Do(s, "unregister")
         IN  IF unreg_ret = "raise" THEN Raise(s1, "UnregisterError")
             ELSE IF unreg_ret = "True"
             THEN Return(delete_cache_files(write_unregistered_file(s1)),
                         unreg_ret)
             ELSE Return(s1, unreg_ret)

handle_unregistration(s, cfg, check, unreg_ret) ==
    IF cfg.legacy_upload
    THEN _legacy_handle_unregistration(s, cfg, check, unreg_ret)
    ELSE LET s1 == Do(s, "unregister")
         IN  IF unreg_ret = "raise" THEN Raise(s1, "UnregisterError")
             ELSE IF unreg_ret = "True" \/ cfg.force
             THEN Return(delete_cache_files(write_unregistered_file(s1)),
                         unreg_ret)
             ELSE Return(s1, unreg_ret)

\* ------------------------------------------------------------------ upload
\* the value of `upload` after a caught TimeoutException
None == [kind |-> "None", ok |-> FALSE, text |-> ""]

\* truth value of `upload` in `if not upload`: None is false, a response is
\* true iff its status is a success status
Truthy(upload) == upload.kind = "response" /\ upload.ok

\* upload.status_code: None has no such attribute
HasStatusCode(upload) == upload.kind = "response"

\* json.loads(upload.text)
json_loads(text) == IF text = "{}" THEN "parsed" ELSE "ValueError"

UploadFailed == "RuntimeError('Upload failed.')"

\* variant: UnregisteredException is missing from the except clause
LegacyFatalExceptions_NoUnregistered == {"PayloadTooLargeException"}

\* the exceptions the loops turn into RuntimeError('Upload failed.')
LegacyFatalExceptions ==
    {"PayloadTooLargeException", "UnregisteredException"}

\* variant: PayloadTooLargeException is missing from the except clause
FatalExceptions_NoPayloadTooLarge == {"InvalidContentTypeException"}

FatalExceptions ==
    {"PayloadTooLargeException", "InvalidContentTypeException"}

\* lines 277-297: what follows the `if not upload:` block in _legacy_upload
_legacy_upload_record(s, upload) ==
    IF ~HasStatusCode(upload) THEN Raise(s, "AttributeError")
    ELSE IF json_loads(upload.text) = "ValueError" THEN Raise(s, "ValueError")
    ELSE Return(write_lastupload_file(
                    write_last_upload_results_file(s, upload.text)),
                json_loads(upload.text))

\* one iteration of the loop of _legacy_upload, `tries_` being the loop
\* variable and `out` what pconn.upload_archive does
_legacy_upload_iteration(s, cfg, tries_, out) ==
    LET s1 == Do(s, "upload_archive")
    IN  IF out.kind \in LegacyFatalExceptions THEN Raise(s1, UploadFailed)
        ELSE IF out.kind \notin {"response", "TimeoutException"}
        THEN Raise(s1, out.kind)
        ELSE LET upload == IF out.kind = "TimeoutException" THEN None
                           ELSE out
             IN  IF ~Truthy(upload)
                 THEN IF ~HasStatusCode(upload)
                      THEN Raise(s1, "AttributeError")
                      ELSE IF tries_ + 1 # cfg.retries
                      THEN _legacy_upload_record(Do(s1, "sleep"), upload)
                      ELSE Raise(s1, UploadFailed)
                 ELSE _legacy_upload_record(s1, upload)

\* lines 327-333: what follows the `if not upload:` block in upload
upload_record(s) == Return(write_lastupload_file(s), "None")

\* variant: the backoff sleep is taken before the remaining attempts are
\* looked at
upload_iteration_SleepsAlways(s, cfg, tries_, out) ==
    LET s1 == Do(s, "upload_archive")
    IN  IF out.kind \in FatalExceptions THEN Raise(s1, UploadFailed)
        ELSE IF out.kind \notin {"response", "TimeoutException"}
        THEN Raise(s1, out.kind)
        ELSE LET upload == IF out.kind = "TimeoutException" THEN None
                           ELSE out
             IN  IF ~Truthy(upload)
                 THEN IF ~HasStatusCode(upload)
                      THEN Raise(s1, "AttributeError")
                      ELSE IF tries_ + 1 # cfg.retries
                      THEN upload_record(Do(s1, "sleep"))
                      ELSE Raise(Do(s1, "sleep"), UploadFailed)
                 ELSE upload_record(s1)

\* one iteration of the loop of upload
upload_iteration(s, cfg, tries_, out) ==
    LET s1 == Do(s, "upload_archive")
    IN  IF out.kind \in FatalExceptions THEN Raise(s1, UploadFailed)
        ELSE IF out.kind \notin {"response", "TimeoutException"}
        THEN Raise(s1, out.kind)
        ELSE LET upload == IF out.kind = "TimeoutException" THEN None
                           ELSE out
             IN  IF ~Truthy(upload)
                 THEN IF ~HasStatusCode(upload)
                      THEN Raise(s1, "AttributeError")
                      ELSE IF tries_ + 1 # cfg.retries
                      THEN upload_record(Do(s1, "sleep"))
                      ELSE Raise(s1, UploadFailed)
                 ELSE upload_record(s1)

\* The two functions as a whole, from the loop variable `tries_` on, against
\* the sequence `outs` of what the successive upload_archive calls do.  The
\* result says how the function ended ("running": it waits for a call whose
\* outcome `outs` does not hold) and which outcomes it did not consume.
Ended(r, outs) ==
    [fs |-> r.fs, id_counter |-> r.id_counter, trace |-> r.trace,
     result |-> r.result, rest |-> outs]

Running(s) ==
    [fs |-> s.fs, id_counter |-> s.id_counter, trace |-> s.trace,
     result |-> [how |-> "running", value |-> "-"], rest |-> <<>>]

RECURSIVE _legacy_upload_run(_, _, _, _)
_legacy_upload_run(s, cfg, tries_, outs) ==
    IF tries_ >= cfg.retries THEN Ended(Return(s, "None"), outs)
    ELSE IF outs = <<>> THEN Running(s)
    ELSE LET r == _legacy_upload_iteration(s, cfg, tries_, Head(outs))
         IN  IF r.result.how = "continue"
             THEN _legacy_upload_run(r, cfg, tries_ + 1, Tail(outs))
             ELSE Ended(r, Tail(outs))

RECURSIVE upload_run(_, _, _, _)
upload_run(s, cfg, tries_, outs) ==
    IF tries_ >= cfg.retries THEN Ended(Return(s, "None"), outs)
    ELSE IF outs = <<>> THEN Running(s)
    ELSE LET r == upload_iteration(s, cfg, tries_, Head(outs))
         IN  IF r.result.how = "continue"
             THEN upload_run(r, cfg, tries_ + 1, Tail(outs))
             ELSE Ended(r, Tail(outs))

\* -------------------------------------------------------------------- Init
Init ==
    /\ fs \in [registered : BOOLEAN, unregistered : BOOLEAN,
               machine_id : {0}, scheduled : BOOLEAN, cache : BOOLEAN,
               lastupload : {FALSE}, last_upload_results : {"absent"}]
    /\ ~(fs.registered /\ fs.unregistered)
    /\ fs0 = fs
    /\ id_counter = 0
    /\ pc = "idle"
    /\ op = "none"
    /\ config = DefaultConfig
    /\ env = NoEnv
    /\ tries = 0
    /\ api_response = "None"
    /\ outcomes = <<>>
    /\ trace = <<>>
    /\ result = NoResult

Start == [fs |-> fs, id_counter |-> id_counter, trace |-> trace]

Finish(r) ==
    /\ fs' = r.fs
    /\ id_counter' = r.id_counter
    /\ trace' = r.trace
    /\ result' = r.result
    /\ pc' = "done"

\* ----------------------------------------------------------------- actions
HandleRegistration ==
    /\ pc = "idle"
    /\ \E legacy, reregister, register, username, password \in BOOLEAN,
          authmethod \in AuthMethods,
          check \in CheckOutcomes, reg \in RegisterOutcomes :
         LET cfg == [DefaultConfig EXCEPT
                        !.legacy_upload = legacy, !.reregister = reregister,
                        !.register = register, !.authmethod = authmethod,
                        !.username = username, !.password = password]
             r == handle_registration(Start, cfg, check, reg)
         IN  /\ r.id_counter <= MaxIds
             /\ Finish(r)
             /\ config' = cfg
             /\ env' = [NoEnv EXCEPT
                          !.check = IF Has(r.trace, "registration_check")
                                    THEN check ELSE "-",
                          !.register = IF Has(r.trace, "register")
                                       THEN reg ELSE "-"]
    /\ op' = "handle_registration"
    /\ UNCHANGED <<fs0, tries, api_response, outcomes>>

HandleUnregistration ==
    /\ pc = "idle"
    /\ \E legacy, force \in BOOLEAN,
          check \in CheckOutcomes, unreg \in UnregisterOutcomes :
         LET cfg == [DefaultConfig EXCEPT
                        !.legacy_upload = legacy, !.force = force]
             r == handle_unregistration(Start, cfg, check, unreg)
         IN  /\ Finish(r)
             /\ config' = cfg
             /\ env' = [NoEnv EXCEPT
                          !.check = IF Has(r.trace, "registration_check")
                                    THEN check ELSE "-",
                          !.unregister = IF Has(r.trace, "unregister")
                                         THEN unreg ELSE "-"]
    /\ op' = "handle_unregistration"
    /\ UNCHANGED <<fs0, tries, api_response, outcomes>>

\* upload() up to the loop: the dispatch on config.legacy_upload
Upload ==
    /\ pc = "idle"
    /\ \E legacy \in BOOLEAN, retries \in RetriesSet :
         /\ config' = [DefaultConfig EXCEPT
                          !.legacy_upload = legacy, !.retries = retries]
         /\ pc' = IF legacy THEN "legacy_upload" ELSE "upload"
    /\ op' = "upload"
    /\ tries' = 0
    /\ api_response' = "None"
    /\ UNCHANGED <<fs, fs0, id_counter, env, outcomes, trace, result>>

LegacyUploadLoop ==
    /\ pc = "legacy_upload"
    /\ tries < config.retries
    /\ \E out \in UploadOutcomes :
         LET r == _legacy_upload_iteration(Start, config, tries, out)
         IN  /\ outcomes' = Append(outcomes, out)
             /\ fs' = r.fs
             /\ id_counter' = r.id_counter
             /\ trace' = r.trace
             /\ IF r.result.how = "continue"
                THEN /\ tries' = tries + 1
                     /\ UNCHANGED <<pc, result, api_response>>
                ELSE /\ pc' = "done"
                     /\ result' = r.result
                     /\ api_response' = IF r.result.how = "return"
                                        THEN r.result.value ELSE api_response
                     /\ UNCHANGED tries
    /\ UNCHANGED <<fs0, op, config, env>>

\* line 299, reached when the loop runs out
LegacyUploadReturn ==
    /\ pc = "legacy_upload"
    /\ tries >= config.retries
    /\ pc' = "done"
    /\ result' = [how |-> "return", value |-> api_response]
    /\ UNCHANGED <<fs, fs0, id_counter, op, config, env, tries,
                   api_response, outcomes, trace>>

UploadLoop ==
    /\ pc = "upload"
    /\ tries < config.retries
    /\ \E out \in UploadOutcomes :
         LET r == upload_iteration(Start, config, tries, out)
         IN  /\ outcomes' = Append(outcomes, out)
             /\ fs' = r.fs
             /\ id_counter' = r.id_counter
             /\ trace' = r.trace
             /\ IF r.result.how = "continue"
                THEN /\ tries' = tries + 1
                     /\ UNCHANGED <<pc, result>>
                ELSE /\ pc' = "done"
                     /\ result' = r.result
                     /\ UNCHANGED tries
    /\ UNCHANGED <<fs0, op, config, env, api_response>>

\* the end of upload(), reached when the loop runs out
UploadReturn ==
    /\ pc = "upload"
    /\ tries >= config.retries
    /\ pc' = "done"
    /\ result' = [how |-> "return", value |-> "None"]
    /\ UNCHANGED <<fs, fs0, id_counter, op, config, env, tries,
                   api_response, outcomes, trace>>

\* the handler has returned to its caller; the next one starts afresh
NextInvocation ==
    /\ pc = "done"
    /\ pc' = "idle"
    /\ op' = "none"
    /\ config' = DefaultConfig
    /\ env' = NoEnv
    /\ tries' = 0
    /\ api_response' = "None"
    /\ outcomes' = <<>>
    /\ trace' = <<>>
    /\ result' = NoResult
    /\ fs0' = fs
    /\ UNCHANGED <<fs, id_counter>>

Next ==
    \/ HandleRegistration
    \/ HandleUnregistration
    \/ Upload
    \/ LegacyUploadLoop
    \/ LegacyUploadReturn
    \/ UploadLoop
    \/ UploadReturn
    \/ NextInvocation

Spec == Init /\ [][Next]_vars

\* The client is sequential code: a loop that can take its next step takes
\* it (time.sleep returns, upload_archive returns or raises).
FairSpec ==
    /\ Spec
    /\ WF_vars(LegacyUploadLoop)
    /\ WF_vars(LegacyUploadReturn)
    /\ WF_vars(UploadLoop)
    /\ WF_vars(UploadReturn)

\* ================================================================== claims
Done == pc = "done"

UploadDone == pc = "done" /\ op = "upload"

Attempts == Count(trace, "upload_archive")

Sleeps == Count(trace, "sleep")

MarkerWrites == Count(trace, "write_lastupload_file")

ResultWrites == Count(trace, "write_last_upload_results_file")

IsTimeout(out) == out.kind = "TimeoutException"

IsFailedStatus(out) == out.kind = "response" /\ ~out.ok

IsSuccess(out) == out.kind = "response" /\ out.ok

IsTransient(out) == IsTimeout(out) \/ IsFailedStatus(out)

IsFatalImmediate(out) ==
    \/ out.kind = "PayloadTooLargeException"
    \/ config.legacy_upload /\ out.kind = "UnregisteredException"
    \/ ~config.legacy_upload /\ out.kind = "InvalidContentTypeException"

Returned(value) == result = [how |-> "return", value |-> value]

Raised(exception) == result = [how |-> "raise", value |-> exception]

LegacyRegistrationDone ==
    pc = "done" /\ op = "handle_registration" /\ config.legacy_upload

LegacyUnregistrationDone ==
    pc = "done" /\ op = "handle_unregistration" /\ config.legacy_upload

ModernUnregistrationDone ==
    pc = "done" /\ op = "handle_unregistration" /\ ~config.legacy_upload

\* C1: an upload with retries = N >= 1 whose every upload_archive call
\* raised Timeout has made exactly N attempts and N-1 sleeps, has not
\* written the last-upload marker and has ended in RuntimeError('Upload
\* failed.').
C1_TimeoutsUseAllRetries ==
    (UploadDone /\ config.retries >= 1
        /\ \A i \in DOMAIN outcomes : IsTimeout(outcomes[i]))
    => /\ Attempts = config.retries
       /\ Sleeps = config.retries - 1
       /\ MarkerWrites = 0
       /\ Raised(UploadFailed)

\* C2: an upload with retries = N >= 1 that met k-1 transient failures goes
\* on to attempt k (it does not end on a transient failure while attempts
\* remain), and when attempt k returns a success response it ends there
\* with exactly k attempts, k-1 sleeps, one write of the last-upload marker
\* and a normal return.
C2_SuccessOnAttemptK ==
    (UploadDone /\ config.retries >= 1 /\ outcomes # <<>>
        /\ \A i \in 1..(Len(outcomes) - 1) : IsTransient(outcomes[i]))
    => LET k == Len(outcomes)
       IN  /\ IsTransient(outcomes[k]) => k = config.retries
           /\ IsSuccess(outcomes[k]) =>
                 /\ Attempts = k
                 /\ Sleeps = k - 1
                 /\ MarkerWrites = 1
                 /\ result.how = "return"

\* C3: the last-upload marker and (legacy) the last-upload-result record
\* are written only when the most recent upload_archive call returned a
\* success response.
C3_NoOptimisticWrites ==
    (op = "upload" /\ (MarkerWrites > 0 \/ ResultWrites > 0))
    => /\ outcomes # <<>>
       /\ IsSuccess(outcomes[Len(outcomes)])

\* C4: once upload_archive has raised PayloadTooLarge (either variant),
\* Unregistered (legacy) or InvalidContentType (modern), the upload is over:
\* that call is the last thing the upload did (no further attempt, no
\* sleep, no marker write) and it ended in RuntimeError('Upload failed.').
C4_FatalImmediateNotRetried ==
    \A i \in DOMAIN outcomes :
        (op = "upload" /\ IsFatalImmediate(outcomes[i]))
        => /\ pc = "done"
           /\ i = Len(outcomes)
           /\ Attempts = i
           /\ trace[Len(trace)] = "upload_archive"
           /\ MarkerWrites = 0
           /\ ResultWrites = 0
           /\ Raised(UploadFailed)

C4_Witness ==
    /\ UploadDone
    /\ config.retries > 1
    /\ outcomes # <<>>
    /\ outcomes[Len(outcomes)].kind = "PayloadTooLargeException"
    /\ Len(outcomes) < config.retries
    /\ Raised(UploadFailed)

\* C5: an upload with retries = N >= 1 whose every upload_archive call
\* returned a non-success status has made exactly N attempts and N-1
\* sleeps, has not written the last-upload marker and has ended in the
\* fatal failure, not in a normal return.
C5_FailedStatusesUseAllRetries ==
    (UploadDone /\ config.retries >= 1
        /\ \A i \in DOMAIN outcomes : IsFailedStatus(outcomes[i]))
    => /\ Attempts = config.retries
       /\ Sleeps = config.retries - 1
       /\ MarkerWrites = 0
       /\ Raised(UploadFailed)

\* C6: a legacy registration whose registration_check reported the host
\* registered returns True without calling register() and without writing
\* the registered marker, whatever config.register is.
C6_AlreadyRegisteredProceeds ==
    (LegacyRegistrationDone /\ env.check = "True")
    => /\ Returned("True")
       /\ ~Has(trace, "register")
       /\ ~Has(trace, "write_registered_file")

C6_Witness ==
    /\ LegacyRegistrationDone
    /\ env.check = "True"
    /\ config.register
    /\ ~config.reregister
    /\ Returned("True")

\* C7: a legacy unregistration with force whose registration_check raised
\* RuntimeError has written the unregistered marker, removed the
\* scheduling and deleted the cached files, has not called unregister(),
\* and returns True.
C7_ForcedUnregisterCleansUp ==
    (LegacyUnregistrationDone /\ config.force /\ env.check = "RuntimeError")
    => /\ Has(trace, "write_unregistered_file") /\ fs.unregistered
       /\ Has(trace, "remove_scheduling") /\ ~fs.scheduled
       /\ Has(trace, "delete_cache_files") /\ ~fs.cache
       /\ ~Has(trace, "unregister")
       /\ Returned("True")

C7_Witness ==
    /\ LegacyUnregistrationDone
    /\ config.force
    /\ env.check = "RuntimeError"
    /\ fs.unregistered
    /\ ~fs.cache

\* C8: a legacy unregistration without force whose registration_check
\* raised RuntimeError raises that error and leaves every file as it was;
\* it calls nothing but the query.
C8_UnforcedQueryErrorPropagates ==
    [][(pc = "idle" /\ op' = "handle_unregistration"
            /\ config'.legacy_upload /\ ~config'.force
            /\ env'.check = "RuntimeError")
        => /\ fs' = fs
           /\ result' = [how |-> "raise", value |-> "RuntimeError"]
           /\ trace' = <<"registration_check">>]_vars

C8_Witness ==
    /\ LegacyUnregistrationDone
    /\ ~config.force
    /\ env.check = "RuntimeError"
    /\ Raised("RuntimeError")
    /\ fs0.registered /\ fs0.scheduled /\ fs0.cache
    /\ fs = fs0

\* C9 as stated: a modern unregistration with the force flag reports
\* success.
C9_ForceReportsSuccess ==
    (ModernUnregistrationDone /\ config.force) => Returned("True")

\* C9 amended: a modern unregistration with the force flag whose
\* unregister() call returned writes the unregistered marker and deletes
\* the cached files even when the call returned failure, and the flag it
\* returns is the flag unregister() returned.
C9_ForceCleansUpReturnsRemoteFlag ==
    (ModernUnregistrationDone /\ config.force
        /\ env.unregister \in {"True", "False"})
    => /\ Has(trace, "write_unregistered_file") /\ fs.unregistered
       /\ Has(trace, "delete_cache_files") /\ ~fs.cache
       /\ Returned(env.unregister)

C9_Witness ==
    /\ ModernUnregistrationDone
    /\ config.force
    /\ env.unregister = "False"
    /\ fs.unregistered
    /\ Returned("False")

\* C10: the registered marker and the unregistered marker are never both
\* present; an invocation that wrote the registered marker leaves the
\* unregistered marker absent, and one that wrote the unregistered marker
\* leaves the registered marker absent.
C10_MarkersExclusive ==
    /\ ~(fs.registered /\ fs.unregistered)
    /\ Has(trace, "write_registered_file")
          => fs.registered /\ ~fs.unregistered
    /\ Has(trace, "write_unregistered_file")
          => fs.unregistered /\ ~fs.registered

C10_Witness ==
    /\ LegacyRegistrationDone
    /\ ~config.reregister
    /\ fs0.unregistered
    /\ Has(trace, "write_registered_file")
    /\ fs.registered
    /\ ~fs.unregistered

ModernRegistrationDone ==
    pc = "done" /\ op = "handle_registration" /\ ~config.legacy_upload

\* BASIC authentication configured without both a username and a password
CredentialsMissing ==
    config.authmethod = "BASIC" /\ ~(config.username /\ config.password)

\* every occurrence of a precedes every occurrence of b
AllBefore(seq, a, b) ==
    \A i, j \in DOMAIN seq : (seq[i] = a /\ seq[j] = b) => i < j

\* C11: a legacy registration with the host not registered remotely,
\* registration requested and BASIC authentication lacking the username or
\* the password returns False ('do not proceed'), does not call register()
\* and does not write the registered marker.
C11_MissingCredentialsRejected ==
    (LegacyRegistrationDone /\ env.check = "False" /\ config.register
        /\ CredentialsMissing)
    => /\ Returned("False")
       /\ ~Has(trace, "register")
       /\ ~Has(trace, "write_registered_file")
       /\ fs.registered = fs0.registered
             \/ (config.reregister /\ ~fs.registered)

C11_Witness ==
    /\ LegacyRegistrationDone
    /\ env.check = "False"
    /\ config.register
    /\ config.authmethod = "BASIC"
    /\ config.username /\ ~config.password
    /\ ~config.reregister
    /\ Returned("False")

\* C12 as stated: a legacy registration rejected for missing credentials
\* (registration requested, BASIC, username or password missing) has
\* invoked no remote operation, neither registration_check nor register().
C12_RejectedBeforeAnyRemoteCall ==
    (LegacyRegistrationDone /\ config.register /\ CredentialsMissing
        /\ Returned("False"))
    => /\ ~Has(trace, "registration_check")
       /\ ~Has(trace, "register")

\* C12 amended: such an invocation never calls register(); it calls
\* registration_check exactly once, before the credentials are looked at,
\* and when it is rejected the query answered 'not registered' and is the
\* last thing the invocation did.
C12_RejectedAfterQueryOnly ==
    (LegacyRegistrationDone /\ config.register /\ CredentialsMissing)
    => /\ ~Has(trace, "register")
       /\ Count(trace, "registration_check") = 1
       /\ Returned("False")
             => /\ env.check = "False"
                /\ trace[Len(trace)] = "registration_check"

C12_Witness ==
    /\ LegacyRegistrationDone
    /\ config.register
    /\ config.authmethod = "BASIC"
    /\ ~config.username /\ config.password
    /\ Returned("False")
    /\ Has(trace, "registration_check")

\* C13 as stated: a modern registration returns the 'proceed' value, the
\* True that the legacy handler returns for a registered machine.
C13_ModernReturnsProceed ==
    ModernRegistrationDone => Returned("True")

\* C13 amended: a modern registration, whatever the configuration, makes
\* no remote call, performs no file operation, leaves every file as it
\* was, and returns None (neither True nor False).
C13_ModernIsNoOp ==
    ModernRegistrationDone
    => /\ trace = <<>>
       /\ fs = fs0
       /\ Returned("None")

C13_Witness ==
    /\ ModernRegistrationDone
    /\ config.register /\ config.reregister
    /\ config.authmethod = "BASIC"
    /\ fs0.unregistered
    /\ fs = fs0
    /\ Returned("None")

\* the local cleanup of the legacy unregistration has run
LegacyCleanupDone ==
    /\ Has(trace, "write_unregistered_file") /\ fs.unregistered
    /\ Has(trace, "remove_scheduling") /\ ~fs.scheduled
    /\ Has(trace, "delete_cache_files") /\ ~fs.cache

\* no file operation of the unregistration handlers has run
NoCleanup ==
    /\ ~Has(trace, "write_unregistered_file")
    /\ ~Has(trace, "remove_scheduling")
    /\ ~Has(trace, "delete_cache_files")
    /\ fs = fs0

\* C14: a legacy unregistration whose registration_check answered.  Host
\* registered: unregister() is called exactly once, the local cleanup runs
\* iff that call returned True, and the flag returned is the flag the call
\* returned.  Host not registered: unregister() is not called, the cleanup
\* runs and True is returned.
C14_LegacyUnregisterFollowsRemote ==
    /\ (LegacyUnregistrationDone /\ env.check = "True")
       => /\ Count(trace, "unregister") = 1
          /\ LegacyCleanupDone <=> env.unregister = "True"
          /\ env.unregister # "True" => NoCleanup
          /\ env.unregister \in {"True", "False"}
                => Returned(env.unregister)
    /\ (LegacyUnregistrationDone /\ env.check = "False")
       => /\ ~Has(trace, "unregister")
          /\ LegacyCleanupDone
          /\ Returned("True")

C14_Witness ==
    /\ LegacyUnregistrationDone
    /\ env.check = "True"
    /\ env.unregister = "False"
    /\ fs0.registered /\ fs0.cache /\ fs0.scheduled
    /\ fs = fs0
    /\ Returned("False")

\* the local cleanup of the modern unregistration has run
ModernCleanupDone ==
    /\ Has(trace, "write_unregistered_file") /\ fs.unregistered
    /\ Has(trace, "delete_cache_files") /\ ~fs.cache

C16_ReregisterResetsFirst ==
    /\ (LegacyRegistrationDone /\ config.reregister)
       => /\ Len(trace) >= 5
          /\ SubSeq(trace, 1, 5) =
                <<"delete_registered_file", "delete_unregistered_file",
                  "delete_machine_id_file", "generate_machine_id",
                  "registration_check">>
          /\ Count(trace, "registration_check") = 1
          /\ fs.machine_id # 0
          /\ fs.machine_id # fs0.machine_id
    /\ (LegacyRegistrationDone /\ ~config.reregister)
       => /\ ~Has(trace, "delete_registered_file")
          /\ ~Has(trace, "delete_unregistered_file")
          /\ ~Has(trace, "delete_machine_id_file")
          /\ fs0.machine_id # 0
                => /\ fs.machine_id = fs0.machine_id
                   /\ trace[1] = "read_machine_id"
          /\ ~Has(trace, "write_registered_file")
                => /\ fs.registered = fs0.registered
                   /\ fs.unregistered = fs0.unregistered

C16_Witness ==
    /\ LegacyRegistrationDone
    /\ config.reregister
    /\ fs0.registered
    /\ fs0.machine_id # 0
    /\ fs.machine_id # fs0.machine_id
    /\ ~fs.registered

\* C17: a legacy registration that wrote the registered marker met a
\* registration_check answering 'not registered', had config.register set,
\* and called register() once, returning normally, before the write; an
\* invocation without config.register, or whose register() raised, wrote
\* no registered marker, and 'not registered, registration not requested'
\* returns False.
C17_MarkerOnlyAfterRegister ==
    /\ (op = "handle_registration" /\ Has(trace, "write_registered_file"))
       => /\ config.legacy_upload
          /\ env.check = "False"
          /\ config.register
          /\ env.register = "ok"
          /\ Count(trace, "register") = 1
          /\ Count(trace, "write_registered_file") = 1
          /\ AllBefore(trace, "register", "write_registered_file")
          /\ AllBefore(trace, "registration_check", "register")
    /\ (LegacyRegistrationDone /\ env.check = "False" /\ ~config.register)
       => /\ Returned("False")
          /\ ~Has(trace, "register")
    /\ (LegacyRegistrationDone /\ env.register = "raise")
       => /\ ~Has(trace, "write_registered_file")
          /\ result.how = "raise"

C17_Witness ==
    /\ LegacyRegistrationDone
    /\ config.reregister
    /\ env.check = "False"
    /\ env.register = "ok"
    /\ Has(trace, "write_registered_file")
    /\ trace[Len(trace)] = "write_registered_file"
    /\ Returned("True")

\* The other variant's counterpart of an outcome: the fatal mismatch of one
\* variant is mapped to the fatal mismatch of the other.
Mirror(out) ==
    IF out.kind = "UnregisteredException"
    THEN [out EXCEPT !.kind = "InvalidContentTypeException"]
    ELSE IF out.kind = "InvalidContentTypeException"
    THEN [out EXCEPT !.kind = "UnregisteredException"]
    ELSE out

MirrorAll(outs) == [i \in DOMAIN outs |-> Mirror(outs[i])]

\* the outcomes C18 speaks of: not the other variant's fatal mismatch
InScope(out) ==
    /\ config.legacy_upload => out.kind # "InvalidContentTypeException"
    /\ ~config.legacy_upload => out.kind # "UnregisteredException"

\* the invocation's own function, run as a whole on the same files and
\* outcomes (it must agree with what the actions did)
Self ==
    LET s0 == [fs |-> fs0, id_counter |-> id_counter, trace |-> <<>>]
    IN  IF config.legacy_upload
        THEN _legacy_upload_run(s0, config, 0, outcomes)
        ELSE upload_run(s0, config, 0, outcomes)

\* the other variant, run on the same files, the same retries and the
\* mirrored outcomes
Twin ==
    LET s0 == [fs |-> fs0, id_counter |-> id_counter, trace |-> <<>>]
    IN  IF config.legacy_upload
        THEN upload_run(s0, config, 0, MirrorAll(outcomes))
        ELSE _legacy_upload_run(s0, config, 0, MirrorAll(outcomes))

\* success, the fatal 'Upload failed.', or any other exception
EndClass(res) ==
    IF res.how = "return" THEN "success"
    ELSE IF res.how = "raise" /\ res.value = UploadFailed THEN "fatal"
    ELSE IF res.how = "raise" THEN "crash"
    ELSE "running"

SelfAgrees ==
    UploadDone
    => /\ Self.result.how = result.how
       /\ Self.trace = trace
       /\ Self.fs = fs
       /\ Self.rest = <<>>

SameAsTwin ==
    /\ Twin.rest = <<>>
    /\ EndClass(Twin.result) = EndClass(result)
    /\ Count(Twin.trace, "upload_archive") = Attempts
    /\ Count(Twin.trace, "sleep") = Sleeps
    /\ Count(Twin.trace, "write_lastupload_file") = MarkerWrites
    /\ Twin.fs.lastupload = fs.lastupload

\* json.loads rejected a response body in the legacy one of the two runs
LegacyParseFailed ==
    \/ config.legacy_upload /\ Raised("ValueError")
    \/ ~config.legacy_upload
          /\ Twin.result = [how |-> "raise", value |-> "ValueError"]

C19_ReturnImpliesMarker ==
    UploadDone
    => \/ result.how = "return" /\ MarkerWrites >= 1 /\ fs.lastupload
       \/ result.how = "raise"

UploadRunning == pc \in {"legacy_upload", "upload"}

Max(a, b) == IF a >= b THEN a ELSE b

\* the number of upload_archive calls among the first i events of the trace
CallsUpTo(i) ==
    Cardinality({j \in 1..i : trace[j] = "upload_archive"})

\* the attempts and sleeps of an upload stay within config.retries: at most
\* N calls, at most max(N-1, 0) sleeps, every sleep right after a call that
\* timed out or returned a non-success status, none after the Nth call
C20_Bounds ==
    op = "upload"
    => /\ Attempts <= config.retries
       /\ tries <= config.retries
       /\ Sleeps <= Max(config.retries - 1, 0)
       /\ \A i \in DOMAIN trace :
             trace[i] = "sleep"
             => /\ i > 1
                /\ trace[i - 1] = "upload_archive"
                /\ CallsUpTo(i) \in DOMAIN outcomes
                /\ IsTransient(outcomes[CallsUpTo(i)])
                /\ CallsUpTo(i) < config.retries

\* C20: an upload always terminates, and within the bounds of C20_Bounds.
C20_TerminatesWithinRetries ==
    /\ [](C20_Bounds)
    /\ UploadRunning ~> Done

C20_Witness ==
    /\ UploadDone
    /\ ~config.legacy_upload
    /\ config.retries = MaxRetries
    /\ Attempts = 1
    /\ Sleeps = 1
    /\ trace[2] = "sleep"

====
